---- MODULE Spec2Model ----
(***************************************************************************)
(* Transport engine of the multitrack recorder (src/multitrack.cpp).       *)
(*                                                                         *)
(* One iteration of main()'s loop is three steps, in the order the code    *)
(* runs them: HandleControl() (pc = "control"), Play() followed by main's  *)
(* CloseReplay() on failure (pc = "play"), Record() followed by main's     *)
(* CloseRecord() on failure (pc = "record").  pc = "control" is therefore  *)
(* the period boundary.                                                    *)
(*                                                                         *)
(* The tape file is its 44-byte header followed by the data region; the    *)
(* variable tape holds the data region, so the byte at file offset o is    *)
(* tape[o - g_offStartOfData + 1].  Record() never addresses the header:   *)
(* it writes at g_offStartOfData + (H - R)*g_nFrameSize with H >= R.       *)
(*                                                                         *)
(* LoadProject()'s OpenFile() and the mix of Play() are followed on their   *)
(* own: OpenSpec opens one file on disk (header are the bytes in front of  *)
(* the data region, so the file is header \o tape), MixSpec mixes one      *)
(* frame of the read buffer.  Spec starts where LoadProject() has opened a *)
(* tape and ends where main() has closed it.                               *)
(*                                                                         *)
(* Frames, periods and seconds are scaled down (PERIOD_SIZE, Samplerate,   *)
(* LatencyFrames, OffsetStep) so that whole periods, short reads, pre-roll *)
(* and extension all occur within a few steps.                             *)
(***************************************************************************)
EXTENDS Integers, Sequences, FiniteSets, TLC

VARIABLES
    g_nChannels,       \* channels of the tape (set once by OpenFile)
    tape,              \* data region of the WAV file, a sequence of bytes
    filePos,           \* file offset of g_fdWave (moved by lseek and read)
    g_offEndOfData,    \* offset of end of data
    g_nLastFrame,      \* last frame
    g_nHeadPos,        \* play head, in frames
    g_nRecordOffset,   \* frames of delay between replay and record
    g_nTransport,      \* TC_STOP or TC_PLAY
    g_bRecordEnabled,
    g_nRecA,           \* track recording the A-leg input, -1 = none
    g_nRecB,           \* track recording the B-leg input, -1 = none
    g_nSelectedTrack,
    bRecording,        \* g_track[t].bRecording
    g_pPcmPlay,        \* TRUE when the playback stream is open (non-NULL)
    g_pPcmRecord,      \* TRUE when the capture stream is open (non-NULL)
    g_nUnderruns,
    g_nOverruns,
    pRecBuffer,        \* the period last read from the capture device
    pc,                \* position in main()'s loop
    nKeys,             \* key presses handled so far
    g_bLoop,           \* TRUE whilst main loop is running
    g_fdWave,          \* file descriptor of the tape, -1 = not open
    header,            \* the bytes of the file in front of the data region
    copy,              \* OpenFile()'s locals while it moves the wave data
    charSigned,        \* TRUE in a build whose plain char is signed
    nMonMixA,          \* g_track[t].nMonMixA
    nMonMixB,          \* g_track[t].nMonMixB
    bMute,             \* g_track[t].bMute
    g_pReadBuffer,     \* the frame Play() mixes
    g_pWriteBuffer,    \* the stereo sample Play() hands to the device
    cfgFile            \* the project's configuration file, as lines of text

vars == <<g_nChannels, tape, filePos, g_offEndOfData, g_nLastFrame, g_nHeadPos,
          g_nRecordOffset, g_nTransport, g_bRecordEnabled, g_nRecA, g_nRecB,
          g_nSelectedTrack, bRecording, g_pPcmPlay, g_pPcmRecord, g_nUnderruns,
          g_nOverruns, pRecBuffer, pc, nKeys, g_bLoop, g_fdWave, header, copy,
          charSigned, nMonMixA, nMonMixB, bMute, g_pReadBuffer, g_pWriteBuffer,
          cfgFile>>

(* The file the session works on, and what only the mix reads or writes. *)
fileVars == <<g_fdWave, header, copy, cfgFile>>
mixVars == <<charSigned, nMonMixA, nMonMixB, bMute, g_pReadBuffer, g_pWriteBuffer>>

----------------------------------------------------------------------------
(* Program constants *)
SAMPLESIZE == 2
TC_STOP == 0
TC_PLAY == 1
HeaderSize == 44

(* Bounds of the model.  OpenFile() moves wave data in runs of CopyRunSize  *)
(* bytes (512 in the source) and is followed until the file has grown to   *)
(* MaxFileBytes; MAX_TRACKS (16 in the source) is MaxChannels.             *)
(* A period is PERIOD_SIZE frames (128 in the        *)
(* source); the source's other frame counts are scaled down with it and    *)
(* keep their order: a second (44100 frames) and the record latency        *)
(* (44100 * 33000 / 1000000 = 1455 frames) are longer than a period and no *)
(* multiple of it, the step of '+' and '-' (100 frames) is no longer than  *)
(* a period.                                                               *)
PERIOD_SIZE == 2
MaxChannels == 2
MaxTapeFrames == 3
MaxKeys == 4
MaxXruns == 1
CopyRunSize == 4
MaxFileBytes == 256
Samplerate == PERIOD_SIZE + 1
LatencyFrames == PERIOD_SIZE + 1
OffsetStep == PERIOD_SIZE
TailBytes == {0, 1}
MaxFrames == MaxTapeFrames + 2 * PERIOD_SIZE
MAX_TRACKS == MaxChannels
MaxOpenData == CopyRunSize + 2

g_nFrameSize == g_nChannels * SAMPLESIZE
g_nPeriodSize == g_nFrameSize * PERIOD_SIZE
g_offStartOfData == HeaderSize
Tracks == 0 .. (g_nChannels - 1)

(* Length of the file. *)
FileLength == g_offStartOfData + Len(tape)

(* The bytes a prepared tape holds at data offset j (never zero), and the  *)
(* bytes of a captured period: 4 bytes per frame, A sample then B sample.   *)
TapeByte(j) == 1 + (j % 100)
CapByte(k) == 128 + k
Capture == [k \in 0 .. (4 * PERIOD_SIZE - 1) |-> CapByte(k)]
Silence_Unset(n) == [k \in 1 .. n |-> 1 + (k % 2)]
Silence(n) == [k \in 1 .. n |-> 0]
(* The record buffer left as the last capture filled it, never silenced. *)
SilentCapture_Stale == [k \in 0 .. (4 * PERIOD_SIZE - 1) |-> CapByte(k)]
SilentCapture == [k \in 0 .. (4 * PERIOD_SIZE - 1) |-> 0]

----------------------------------------------------------------------------
(* Bytes of the RIFF WAVE file. *)

(* The chunk identifiers, as their ASCII bytes. *)
RIFF == <<82, 73, 70, 70>>
WAVE == <<87, 65, 86, 69>>
FMT == <<102, 109, 116, 32>>
DATA == <<100, 97, 116, 97>>

(* SetLE16(), SetLE32(): a word as little-endian bytes.  \div rounds down, *)
(* so the bytes of a negative word are those of its two's complement.      *)
SetLE16(nWord) == <<nWord % 256, (nWord \div 256) % 256>>

SetLE32(nWord) ==
    <<nWord % 256, (nWord \div 256) % 256,
      (nWord \div 65536) % 256, (nWord \div 16777216) % 256>>

(* struct WaveHeader: the 16 bytes of the format chunk. *)
WaveHeader(nAudioFormat, nNumChannels, nSampleRate, nBitsPerSample) ==
    SetLE16(nAudioFormat) \o SetLE16(nNumChannels) \o SetLE32(nSampleRate)
        \o SetLE32((nSampleRate * nNumChannels * nBitsPerSample) \div 8)
        \o SetLE16((nNumChannels * nBitsPerSample) \div 8)
        \o SetLE16(nBitsPerSample)

(* OpenFile(): the minimal 44-byte header it writes in front of nWaveSize  *)
(* bytes of wave data, around the format chunk pWaveBuffer it has read,    *)
(* whose nAudioFormat it sets to 1.                                        *)
MinimalHeader(pWaveBuffer, nWaveSize) ==
    RIFF \o SetLE32(nWaveSize + 36) \o WAVE \o FMT \o SetLE32(16)
         \o SetLE16(1) \o SubSeq(pWaveBuffer, 3, 16)
         \o DATA \o SetLE32(nWaveSize)

(* pread(): the bytes a read of n bytes at offset off of file f returns. *)
ReadAt(f, off, n) ==
    IF off >= Len(f) THEN <<>>
    ELSE SubSeq(f, off + 1, IF off + n > Len(f) THEN Len(f) ELSE off + n)

(* pwrite(): file f after bytes are written at offset off; a write past    *)
(* the end grows the file.                                                 *)
PWrite(f, bytes, off) ==
    [j \in 1 .. (IF off + Len(bytes) > Len(f) THEN off + Len(bytes) ELSE Len(f)) |->
        IF j > off /\ j <= off + Len(bytes) THEN bytes[j - off]
        ELSE IF j <= Len(f) THEN f[j]
        ELSE 0]

(* OpenFile()'s locals when it is not moving wave data. *)
NoCopy == [offRead |-> 0, offWrite |-> 0, nWaveSize |-> 0, pData |-> <<>>]

----------------------------------------------------------------------------
(* The project's configuration file: lines of text, each a sequence of     *)
(* character codes ending in a newline.                                    *)

(* "Pos=", "Rof=" and the characters the lines are made of. *)
POS == <<80, 111, 115, 61>>
ROF == <<82, 111, 102, 61>>
Char0 == 48
CharNewline == 10
CharMinus == 45
CharPlus == 43
CharEquals == 61
CharL == 76
CharR == 82
CharM == 77

(* sprintf("%d"): the decimal digits of n, with a minus sign in front of a  *)
(* negative n.                                                             *)
RECURSIVE FormatDigits(_)
FormatDigits(n) ==
    IF n < 10 THEN <<Char0 + n>>
    ELSE FormatDigits(n \div 10) \o <<Char0 + (n % 10)>>
FormatInt(n) == IF n < 0 THEN <<CharMinus>> \o FormatDigits(-n) ELSE FormatDigits(n)

(* sprintf("%02d"): at least two digits. *)
FormatInt02(n) == IF n >= 0 /\ n < 10 THEN <<Char0>> \o FormatInt(n) ELSE FormatInt(n)

(* atoi() on the text of s from index i: white space, a sign, then digits  *)
(* up to the first character that is none.                                 *)
IsSpace(c) == c \in {32, 9, 10, 11, 12, 13}
IsDigit(c) == c >= Char0 /\ c <= Char0 + 9
RECURSIVE SkipSpace(_, _)
SkipSpace(s, i) == IF i <= Len(s) /\ IsSpace(s[i]) THEN SkipSpace(s, i + 1) ELSE i
RECURSIVE AtoiDigits(_, _, _)
AtoiDigits(s, i, acc) ==
    IF i <= Len(s) /\ IsDigit(s[i])
    THEN AtoiDigits(s, i + 1, acc * 10 + (s[i] - Char0))
    ELSE acc
Atoi(s, i) ==
    LET j == SkipSpace(s, i)
    IN  IF j <= Len(s) /\ s[j] = CharMinus THEN 0 - AtoiDigits(s, j + 1, 0)
        ELSE IF j <= Len(s) /\ s[j] = CharPlus THEN AtoiDigits(s, j + 1, 0)
        ELSE AtoiDigits(s, j, 0)

(* SaveProject(): the three lines of track i, and the lines of tracks i to *)
(* nch - 1.                                                                *)
TrackLines(i, mixA, mixB, mute) ==
    << FormatInt02(i) \o <<CharL, CharEquals>> \o FormatInt(mixA[i]) \o <<CharNewline>>,
       FormatInt02(i) \o <<CharR, CharEquals>> \o FormatInt(mixB[i]) \o <<CharNewline>>,
       FormatInt02(i) \o <<CharM, CharEquals>>
           \o (IF mute[i] THEN <<Char0 + 1, CharNewline>> ELSE <<Char0, CharNewline>>) >>
RECURSIVE AllTrackLines(_, _, _, _, _)
AllTrackLines(i, nch, mixA, mixB, mute) ==
    IF i >= nch THEN <<>>
    ELSE TrackLines(i, mixA, mixB, mute) \o AllTrackLines(i + 1, nch, mixA, mixB, mute)

(* The "Pos=" and "Rof=" lines. *)
PosLine(nHeadPos) == POS \o FormatInt(nHeadPos) \o <<CharNewline>>
RofLine(nRecordOffset) == ROF \o FormatInt(nRecordOffset) \o <<CharNewline>>

(* SaveProject(): the lines it writes: every track, then the head          *)
(* position.  The record offset is formatted and not written.              *)
SavedLines(nch, mixA, mixB, mute, nHeadPos, nRecordOffset) ==
    AllTrackLines(0, nch, mixA, mixB, mute) \o <<PosLine(nHeadPos)>>

(* No configuration file, and one that holds the given lines. *)
NoConfig == [exists |-> FALSE, lines |-> <<>>]
ConfigOf(lines) == [exists |-> TRUE, lines |-> lines]

(* LoadProject(): what one line does to the settings st read so far, for a *)
(* tape of nch channels.  A line shorter than 5 characters is passed over. *)
LoadLine(st, pLine, nch) ==
    IF Len(pLine) < 5 THEN st
    ELSE LET nChannel == (pLine[1] - Char0) * 10 + (pLine[2] - Char0)
             track == IF nChannel >= 0 /\ nChannel < nch
                      THEN IF pLine[3] = CharL
                           THEN [st EXCEPT !.mixA[nChannel] = Atoi(pLine, 5)]
                           ELSE IF pLine[3] = CharR
                           THEN [st EXCEPT !.mixB[nChannel] = Atoi(pLine, 5)]
                           ELSE IF pLine[3] = CharM
                           THEN [st EXCEPT !.mute[nChannel] = (pLine[5] = Char0 + 1)]
                           ELSE st
                      ELSE st
             pos == IF SubSeq(pLine, 1, 4) = POS
                    THEN [track EXCEPT !.nHeadPos = Atoi(pLine, 5)]
                    ELSE track
         IN  IF SubSeq(pLine, 1, 4) = ROF
             THEN [pos EXCEPT !.nRecordOffset = Atoi(pLine, 5)]
             ELSE pos

(* LoadProject(): the loop over the lines of the file, from line i. *)
RECURSIVE LoadLines(_, _, _, _)
LoadLines(st, lines, i, nch) ==
    IF i > Len(lines) THEN st
    ELSE LoadLines(LoadLine(st, lines[i], nch), lines, i + 1, nch)

----------------------------------------------------------------------------
(* State after main() has initialised the globals and LoadProject() has    *)
(* opened a tape of nch channels whose data region is len bytes long, with *)
(* the head at the position pos of the project's configuration.            *)
Init ==
    \E nch \in 1 .. MaxChannels, frames \in 0 .. MaxTapeFrames, tail \in TailBytes :
        LET len == frames * nch * SAMPLESIZE + tail IN
        \E pos \in 0 .. frames :
            /\ g_nChannels = nch
            /\ tape = [j \in 1 .. len |-> TapeByte(j - 1)]
            /\ g_offEndOfData = HeaderSize + len
            /\ g_nLastFrame = len \div (nch * SAMPLESIZE)
            /\ g_nHeadPos = pos
            /\ filePos = HeaderSize + pos * nch * SAMPLESIZE
            /\ g_nRecordOffset = LatencyFrames
            /\ g_nTransport = TC_STOP
            /\ g_bRecordEnabled = FALSE
            /\ g_nRecA = -1
            /\ g_nRecB = -1
            /\ g_nSelectedTrack = 0
            /\ bRecording = [t \in 0 .. (nch - 1) |-> FALSE]
            /\ g_pPcmPlay = FALSE
            /\ g_pPcmRecord = FALSE
            /\ g_nUnderruns = 0
            /\ g_nOverruns = 0
            /\ pRecBuffer = SilentCapture
            /\ pc = "control"
            /\ nKeys = 0
            /\ g_bLoop = TRUE
            /\ g_fdWave = 3
            /\ header = MinimalHeader(WaveHeader(1, nch, Samplerate, 16), len)
            /\ copy = NoCopy
            /\ charSigned = TRUE
            /\ nMonMixA = [t \in 0 .. (nch - 1) |-> 0]
            /\ nMonMixB = [t \in 0 .. (nch - 1) |-> 0]
            /\ bMute = [t \in 0 .. (nch - 1) |-> FALSE]
            /\ g_pReadBuffer = <<>>
            /\ g_pWriteBuffer = <<0, 0>>
            /\ cfgFile = ConfigOf(<<PosLine(pos)>>)

----------------------------------------------------------------------------
(* read() and pread(): the number of bytes a read of n bytes at offset off *)
(* returns from a file of fileLength bytes.                                *)
BytesRead(fileLength, off, n) ==
    IF off >= fileLength THEN 0
    ELSE IF fileLength - off < n THEN fileLength - off
    ELSE n

(* read() of n bytes at offset off of the tape file. *)
ReadCount(off, n) == BytesRead(FileLength, off, n)

(* SetPlayHead(): the head position after clamping. *)
ClampHead(nPosition) ==
    LET low == IF nPosition < 0 THEN 0 ELSE nPosition
    IN  IF low > g_nLastFrame THEN g_nLastFrame ELSE low

(* SetPlayHead(): clamps the head and, when the file is open, seeks it to  *)
(* the head.                                                               *)
SetPlayHead(nPosition) ==
    /\ g_nHeadPos' = ClampHead(nPosition)
    /\ filePos' = IF g_fdWave > 0
                  THEN g_offStartOfData + ClampHead(nPosition) * g_nFrameSize
                  ELSE filePos

(* CloseReplay() with its test inverted: stops only when record is enabled. *)
CloseReplayTransport_Inverted(transport, recordEnabled) ==
    IF recordEnabled THEN TC_STOP ELSE transport

(* CloseReplay(): the transport stops unless record is enabled. *)
CloseReplayTransport(transport, recordEnabled) ==
    IF ~recordEnabled THEN TC_STOP ELSE transport

(* CloseRecord() that closes the stream and leaves the bRecording flags. *)
CloseRecordFlags_Kept(flags, recA, recB) == flags

(* CloseRecord(): the bRecording flags once the armed tracks are cleared. *)
CloseRecordFlags(flags, recA, recB) ==
    [t \in DOMAIN flags |-> IF t = recA \/ t = recB THEN FALSE ELSE flags[t]]

(* OpenRecord(): the bRecording flags once the armed tracks are marked. *)
OpenRecordFlags(flags, recA, recB) ==
    [t \in DOMAIN flags |-> IF t = recA \/ t = recB THEN TRUE ELSE flags[t]]

(* CloseRecord() that clears the flags and leaves the capture stream as it is. *)
CloseRecord_KeepsStream ==
    /\ g_pPcmRecord' = g_pPcmRecord
    /\ bRecording' = CloseRecordFlags(bRecording, g_nRecA, g_nRecB)

(* CloseRecord(): closes the capture stream and clears the armed tracks' flags. *)
CloseRecord ==
    /\ g_pPcmRecord' = FALSE
    /\ bRecording' = CloseRecordFlags(bRecording, g_nRecA, g_nRecB)

----------------------------------------------------------------------------
(* HandleControl(): one action per key.  Every key ends the control step. *)
KeyHandled ==
    /\ pc = "control"
    /\ g_bLoop
    /\ nKeys < MaxKeys
    /\ UNCHANGED <<fileVars, mixVars>>
    /\ nKeys' = nKeys + 1
    /\ pc' = "play"

(* getch() returns no key: HandleControl() returns at once. *)
NoKey ==
    /\ pc = "control"
    /\ g_bLoop
    /\ pc' = "play"
    /\ UNCHANGED <<fileVars, mixVars>>
    /\ UNCHANGED <<g_bLoop, g_nChannels, tape, filePos, g_offEndOfData, g_nLastFrame,
                   g_nHeadPos, g_nRecordOffset, g_nTransport, g_bRecordEnabled,
                   g_nRecA, g_nRecB, g_nSelectedTrack, bRecording, g_pPcmPlay,
                   g_pPcmRecord, g_nUnderruns, g_nOverruns, pRecBuffer, nKeys>>

(* KEY_DOWN: select next track. *)
KeyDown ==
    /\ KeyHandled
    /\ g_nSelectedTrack' = IF g_nSelectedTrack + 1 >= g_nChannels
                           THEN g_nChannels - 1 ELSE g_nSelectedTrack + 1
    /\ UNCHANGED <<g_bLoop, g_nChannels, tape, filePos, g_offEndOfData, g_nLastFrame,
                   g_nHeadPos, g_nRecordOffset, g_nTransport, g_bRecordEnabled,
                   g_nRecA, g_nRecB, bRecording, g_pPcmPlay, g_pPcmRecord,
                   g_nUnderruns, g_nOverruns, pRecBuffer>>

(* KEY_UP: select previous track. *)
KeyUp ==
    /\ KeyHandled
    /\ g_nSelectedTrack' = IF g_nSelectedTrack - 1 < 0 THEN 0 ELSE g_nSelectedTrack - 1
    /\ UNCHANGED <<g_bLoop, g_nChannels, tape, filePos, g_offEndOfData, g_nLastFrame,
                   g_nHeadPos, g_nRecordOffset, g_nTransport, g_bRecordEnabled,
                   g_nRecA, g_nRecB, bRecording, g_pPcmPlay, g_pPcmRecord,
                   g_nUnderruns, g_nOverruns, pRecBuffer>>

(* The bRecording flags after 'a' or 'b' toggles the arm held in rec on    *)
(* the selected track: the old track is cleared, the new one is marked     *)
(* when the capture stream is open.                                        *)
ArmFlags(flags, rec) ==
    IF rec = g_nSelectedTrack
    THEN [flags EXCEPT ![rec] = FALSE]
    ELSE LET cleared == IF rec > -1 THEN [flags EXCEPT ![rec] = FALSE] ELSE flags
         IN  IF g_pPcmRecord THEN [cleared EXCEPT ![g_nSelectedTrack] = TRUE] ELSE cleared

(* The arm after 'a' or 'b' toggles it on the selected track. *)
ArmToggle(rec) == IF rec = g_nSelectedTrack THEN -1 ELSE g_nSelectedTrack

(* 'a': toggle record from A. *)
KeyArmA ==
    /\ KeyHandled
    /\ g_nRecA' = ArmToggle(g_nRecA)
    /\ IF ArmToggle(g_nRecA) = -1 /\ g_nRecB = -1
       THEN /\ g_pPcmRecord' = FALSE
            /\ bRecording' = CloseRecordFlags(ArmFlags(bRecording, g_nRecA), -1, -1)
       ELSE /\ g_pPcmRecord' = g_pPcmRecord
            /\ bRecording' = ArmFlags(bRecording, g_nRecA)
    /\ UNCHANGED <<g_bLoop, g_nChannels, tape, filePos, g_offEndOfData, g_nLastFrame,
                   g_nHeadPos, g_nRecordOffset, g_nTransport, g_bRecordEnabled,
                   g_nRecB, g_nSelectedTrack, g_pPcmPlay, g_nUnderruns,
                   g_nOverruns, pRecBuffer>>

(* 'b': toggle record from B. *)
KeyArmB ==
    /\ KeyHandled
    /\ g_nRecB' = ArmToggle(g_nRecB)
    /\ IF g_nRecA = -1 /\ ArmToggle(g_nRecB) = -1
       THEN /\ g_pPcmRecord' = FALSE
            /\ bRecording' = CloseRecordFlags(ArmFlags(bRecording, g_nRecB), -1, -1)
       ELSE /\ g_pPcmRecord' = g_pPcmRecord
            /\ bRecording' = ArmFlags(bRecording, g_nRecB)
    /\ UNCHANGED <<g_bLoop, g_nChannels, tape, filePos, g_offEndOfData, g_nLastFrame,
                   g_nHeadPos, g_nRecordOffset, g_nTransport, g_bRecordEnabled,
                   g_nRecA, g_nSelectedTrack, g_pPcmPlay, g_nUnderruns,
                   g_nOverruns, pRecBuffer>>

(* ' ' in TC_STOP: OpenReplay(), which the device may refuse (ok = FALSE), *)
(* then the return to zero and SetPlayHead().                              *)
KeyStart ==
    /\ KeyHandled
    /\ g_nTransport = TC_STOP
    /\ \E ok \in BOOLEAN :
         IF g_pPcmPlay \/ ok
         THEN /\ g_pPcmPlay' = TRUE
              /\ g_nTransport' = TC_PLAY
         ELSE /\ g_pPcmPlay' = FALSE
              /\ g_nTransport' = CloseReplayTransport(g_nTransport, g_bRecordEnabled)
    /\ IF ~g_bRecordEnabled /\ g_nHeadPos >= g_nLastFrame
       THEN SetPlayHead(0)
       ELSE SetPlayHead(g_nHeadPos)
    /\ UNCHANGED <<g_bLoop, g_nChannels, tape, g_offEndOfData, g_nLastFrame, g_nRecordOffset,
                   g_bRecordEnabled, g_nRecA, g_nRecB, g_nSelectedTrack, bRecording,
                   g_pPcmRecord, g_nUnderruns, g_nOverruns, pRecBuffer>>

(* ' ' in TC_PLAY: CloseReplay(), stop, disable record, CloseRecord(),     *)
(* recompute the last frame.  The division by a frame size of 0 (no format *)
(* chunk was ever read) is undefined: the build either traps, which ends   *)
(* the process before the quotient is stored, or yields 0.                 *)
KeyStop ==
    /\ pc = "control"
    /\ g_bLoop
    /\ nKeys < MaxKeys
    /\ UNCHANGED <<fileVars, mixVars>>
    /\ nKeys' = nKeys + 1
    /\ g_nTransport = TC_PLAY
    /\ g_pPcmPlay' = FALSE
    /\ g_nTransport' = TC_STOP
    /\ g_bRecordEnabled' = FALSE
    /\ CloseRecord
    /\ IF g_nFrameSize # 0
       THEN /\ g_nLastFrame' = (g_offEndOfData - g_offStartOfData) \div g_nFrameSize
            /\ pc' = "play"
       ELSE \E trap \in BOOLEAN :
            /\ g_nLastFrame' = IF trap THEN g_nLastFrame ELSE 0
            /\ pc' = IF trap THEN "crashed" ELSE "play"
    /\ UNCHANGED <<g_bLoop, g_nChannels, tape, filePos, g_offEndOfData, g_nHeadPos,
                   g_nRecordOffset, g_nRecA, g_nRecB, g_nSelectedTrack,
                   g_nUnderruns, g_nOverruns, pRecBuffer>>

(* 'G': toggle record mode. *)
KeyRecordEnable ==
    /\ KeyHandled
    /\ IF g_bRecordEnabled
       THEN CloseRecord
       ELSE UNCHANGED <<g_pPcmRecord, bRecording>>
    /\ g_bRecordEnabled' = ~g_bRecordEnabled
    /\ UNCHANGED <<g_bLoop, g_nChannels, tape, filePos, g_offEndOfData, g_nLastFrame,
                   g_nHeadPos, g_nRecordOffset, g_nTransport, g_nRecA, g_nRecB,
                   g_nSelectedTrack, g_pPcmPlay, g_nUnderruns, g_nOverruns,
                   pRecBuffer>>

(* KEY_HOME, KEY_END, ',', '.', '<', '>': the positions the seek keys ask for. *)
SeekTargets ==
    { 0, g_nLastFrame,
      g_nHeadPos - 1 * Samplerate, g_nHeadPos + 1 * Samplerate,
      g_nHeadPos - 10 * Samplerate, g_nHeadPos + 10 * Samplerate }

KeySeek ==
    /\ KeyHandled
    /\ \E nPosition \in SeekTargets : SetPlayHead(nPosition)
    /\ UNCHANGED <<g_bLoop, g_nChannels, tape, g_offEndOfData, g_nLastFrame, g_nRecordOffset,
                   g_nTransport, g_bRecordEnabled, g_nRecA, g_nRecB,
                   g_nSelectedTrack, bRecording, g_pPcmPlay, g_pPcmRecord,
                   g_nUnderruns, g_nOverruns, pRecBuffer>>

(* 'e': clear errors. *)
KeyClearErrors ==
    /\ KeyHandled
    /\ g_nUnderruns' = 0
    /\ g_nOverruns' = 0
    /\ UNCHANGED <<g_bLoop, g_nChannels, tape, filePos, g_offEndOfData, g_nLastFrame,
                   g_nHeadPos, g_nRecordOffset, g_nTransport, g_bRecordEnabled,
                   g_nRecA, g_nRecB, g_nSelectedTrack, bRecording, g_pPcmPlay,
                   g_pPcmRecord, pRecBuffer>>

(* '+' and '-': adjust the record offset; the model keeps it within        *)
(* LatencyFrames - 2 * OffsetStep .. LatencyFrames.                        *)
KeyRecordOffset ==
    /\ KeyHandled
    /\ \E d \in {OffsetStep, -OffsetStep} :
         /\ g_nRecordOffset + d <= LatencyFrames
         /\ g_nRecordOffset + d >= LatencyFrames - 2 * OffsetStep
         /\ g_nRecordOffset' = g_nRecordOffset + d
    /\ UNCHANGED <<g_bLoop, g_nChannels, tape, filePos, g_offEndOfData, g_nLastFrame,
                   g_nHeadPos, g_nTransport, g_bRecordEnabled, g_nRecA, g_nRecB,
                   g_nSelectedTrack, bRecording, g_pPcmPlay, g_pPcmRecord,
                   g_nUnderruns, g_nOverruns, pRecBuffer>>

(* 'q': quit.  The loop ends after this iteration's Play() and Record(). *)
KeyQuit ==
    /\ KeyHandled
    /\ g_bLoop' = FALSE
    /\ UNCHANGED <<g_nChannels, tape, filePos, g_offEndOfData, g_nLastFrame,
                   g_nHeadPos, g_nRecordOffset, g_nTransport, g_bRecordEnabled,
                   g_nRecA, g_nRecB, g_nSelectedTrack, bRecording, g_pPcmPlay,
                   g_pPcmRecord, g_nUnderruns, g_nOverruns, pRecBuffer>>

(* CloseFile() writing the length of the data in place of the length of    *)
(* the RIFF chunk.                                                         *)
RiffLength_DataSize(hdr, offEndOfData) ==
    PWrite(hdr, SetLE32(offEndOfData - HeaderSize), 4)

(* CloseFile(): the header once the RIFF chunk length is written at        *)
(* offset 4.                                                               *)
RiffLength(hdr, offEndOfData) == PWrite(hdr, SetLE32(offEndOfData - 8), 4)

(* CloseFile(): writes the RIFF chunk length when the file is open,        *)
(* releases the descriptor, stops the transport and forgets the channels.  *)
CloseFile ==
    /\ header' = IF g_fdWave > 0 THEN RiffLength(header, g_offEndOfData) ELSE header
    /\ g_fdWave' = -1
    /\ g_nTransport' = TC_STOP
    /\ g_nChannels' = 0

(* SaveProject(): writes the configuration when fopen() succeeds, which it *)
(* does where the tape could be opened.                                    *)
SaveProject ==
    \E saved \in (IF g_fdWave > 0 THEN {TRUE} ELSE BOOLEAN) :
        cfgFile' = IF saved
                   THEN ConfigOf(SavedLines(g_nChannels, nMonMixA, nMonMixB, bMute,
                                            g_nHeadPos, g_nRecordOffset))
                   ELSE cfgFile

(* main() after its loop: CloseReplay(), CloseRecord(), SaveProject() and  *)
(* CloseFile().                                                            *)
MainExit ==
    /\ pc = "control"
    /\ ~g_bLoop
    /\ pc' = "done"
    /\ g_pPcmPlay' = FALSE
    /\ CloseRecord
    /\ SaveProject
    /\ CloseFile
    /\ UNCHANGED <<g_bLoop, tape, filePos, g_offEndOfData, g_nLastFrame, g_nHeadPos,
                   g_nRecordOffset, g_bRecordEnabled, g_nRecA, g_nRecB,
                   g_nSelectedTrack, g_nUnderruns, g_nOverruns, pRecBuffer, nKeys,
                   copy, mixVars>>

----------------------------------------------------------------------------
(* Play(), then main()'s "if(!Play() && TC_PLAY == g_nTransport)           *)
(* CloseReplay()".  xrun: snd_pcm_writei() reports an underrun (-EPIPE).   *)
(* The mix into g_pWriteBuffer feeds nothing but the playback device.      *)
PlayStep ==
    /\ pc = "play"
    /\ pc' = "record"
    /\ UNCHANGED <<fileVars, mixVars>>
    /\ IF ~g_pPcmPlay \/ g_fdWave < 0 \/ g_nTransport # TC_PLAY
       THEN \* Play() returns false before reading
            /\ IF g_nTransport = TC_PLAY
               THEN /\ g_pPcmPlay' = FALSE
                    /\ g_nTransport' = CloseReplayTransport(g_nTransport, g_bRecordEnabled)
               ELSE UNCHANGED <<g_pPcmPlay, g_nTransport>>
            /\ UNCHANGED <<filePos, g_nHeadPos, g_nUnderruns>>
       ELSE LET nRead == ReadCount(filePos, g_nPeriodSize)
                bPlaying == nRead > 0
            IN  /\ filePos' = filePos + nRead
                /\ IF bPlaying
                   THEN /\ g_nHeadPos' = g_nHeadPos + PERIOD_SIZE
                        /\ \E xrun \in BOOLEAN :
                             /\ xrun => g_nUnderruns < MaxXruns
                             /\ g_nUnderruns' = IF xrun THEN g_nUnderruns + 1
                                                ELSE g_nUnderruns
                        /\ UNCHANGED <<g_pPcmPlay, g_nTransport>>
                   ELSE /\ g_pPcmPlay' = FALSE
                        /\ g_nTransport' = CloseReplayTransport(g_nTransport, g_bRecordEnabled)
                        /\ UNCHANGED <<g_nHeadPos, g_nUnderruns>>
    /\ UNCHANGED <<g_bLoop, g_nChannels, tape, g_offEndOfData, g_nLastFrame, g_nRecordOffset,
                   g_bRecordEnabled, g_nRecA, g_nRecB, g_nSelectedTrack, bRecording,
                   g_pPcmRecord, g_nOverruns, pRecBuffer, nKeys>>

----------------------------------------------------------------------------
(* Record() without its test of g_bRecordEnabled. *)
RecordRolling_IgnoresEnable ==
    /\ g_nTransport = TC_PLAY
    /\ ~(g_fdWave <= 0)
    /\ ~(g_nRecA = -1 /\ g_nRecB = -1)

(* Record(): the guards that return false before anything is recorded. *)
RecordRolling ==
    /\ g_nTransport = TC_PLAY
    /\ g_bRecordEnabled
    /\ ~(g_fdWave <= 0)
    /\ ~(g_nRecA = -1 /\ g_nRecB = -1)

(* memcpy(g_pReadBuffer + pos, pRecBuffer + k, SAMPLESIZE).  The buffer    *)
(* holds g_nPeriodSize bytes; the copy of the last frame to pos =          *)
(* g_nPeriodSize lands in the allocator's slack behind the buffer and      *)
(* reaches neither the buffer nor the file.                                *)
PutSample(buf, pos, cap, k) ==
    [p \in DOMAIN buf |->
        IF p = pos THEN cap[k]
        ELSE IF p = pos + 1 THEN cap[k + 1]
        ELSE buf[p]]

(* Byte offsets in g_pReadBuffer that frame nSample's A and B samples are  *)
(* copied to.  The source computes both from g_nRecA.                      *)
OffsetA(nSample, recA) == nSample * g_nFrameSize + (recA * SAMPLESIZE)
OffsetB(nSample, recA, recB) == 2 + nSample * g_nFrameSize + (recA * SAMPLESIZE)

(* Record(): the loop over the frames of the period, from frame nSample. *)
RECURSIVE Overdub(_, _, _, _, _)
Overdub(buf, nSample, recA, recB, cap) ==
    IF nSample >= PERIOD_SIZE
    THEN buf
    ELSE LET withA == IF recA # -1
                      THEN PutSample(buf, OffsetA(nSample, recA), cap, nSample * 4)
                      ELSE buf
             withB == IF recB # -1
                      THEN PutSample(withA, OffsetB(nSample, recA, recB), cap, 2 + nSample * 4)
                      ELSE withA
         IN  Overdub(withB, nSample + 1, recA, recB, cap)

(* pread() of one period at offRewrite into g_pReadBuffer: the bytes past  *)
(* the nRead bytes read are left over and never written back.              *)
ReadBack(t, offRewrite, nRead) ==
    [p \in 0 .. (g_nPeriodSize - 1) |->
        IF p < nRead THEN t[offRewrite - g_offStartOfData + p + 1] ELSE 0]

(* pwrite() of the whole period held in buf at offRewrite, whatever was read. *)
WriteBack_WholePeriod(t, buf, offRewrite, nRead) ==
    LET first == offRewrite - g_offStartOfData
        last == IF first + g_nPeriodSize > Len(t) THEN first + g_nPeriodSize ELSE Len(t)
    IN  [j \in 1 .. last |->
            IF j - 1 >= first /\ j - 1 < first + g_nPeriodSize THEN buf[j - 1 - first]
            ELSE t[j]]

(* pwrite() of the first nRead bytes of buf at offRewrite. *)
WriteBack(t, buf, offRewrite, nRead) ==
    [j \in 1 .. Len(t) |->
        IF /\ j - 1 >= offRewrite - g_offStartOfData
           /\ j - 1 < offRewrite - g_offStartOfData + nRead
        THEN buf[j - 1 - (offRewrite - g_offStartOfData)]
        ELSE t[j]]

(* lseek() and write() in place of pwrite(): the offset ends behind the    *)
(* bytes written.                                                          *)
FileOffsetAfterPositional_Seeking(pos, off, n) == off + n

(* pread() and pwrite() of n bytes at off: the descriptor's own offset     *)
(* stays where it was.                                                     *)
FileOffsetAfterPositional(pos, off, n) == pos

(* Record(): the file offset the period is rewritten at. *)
RewriteOffset == g_offStartOfData + (g_nHeadPos - g_nRecordOffset) * g_nFrameSize

(* Record() from the test of the last frame on: the tape t, whose last     *)
(* frame is nLastFrame, once it is extended when the head is at or past    *)
(* the last frame and the period at RewriteOffset is read, overdubbed with *)
(* the captured period cap and written back.                               *)
RecordedTape(t, nLastFrame, cap) ==
    LET extended == IF g_nHeadPos >= nLastFrame THEN t \o Silence(g_nPeriodSize) ELSE t
        nRead == BytesRead(g_offStartOfData + Len(extended), RewriteOffset, g_nPeriodSize)
    IN  WriteBack(extended,
                  Overdub(ReadBack(extended, RewriteOffset, nRead),
                          0, g_nRecA, g_nRecB, cap),
                  RewriteOffset, nRead)

(* Record(), then main()'s "if(!Record()) CloseRecord()".  The pwrite()    *)
(* that extends the file writes the whole period of silence.  openOk: the  *)
(* capture device opens; overrun: snd_pcm_readi() reports -EPIPE and leaves  *)
(* the zeroed buffer, else it delivers a period.                           *)
RecordStep ==
    /\ pc = "record"
    /\ pc' = "control"
    /\ UNCHANGED <<fileVars, mixVars>>
    /\ IF ~RecordRolling
       THEN \* Record() returns false
            /\ CloseRecord
            /\ UNCHANGED <<tape, filePos, g_offEndOfData, g_nLastFrame, g_nOverruns,
                           pRecBuffer>>
       ELSE IF g_nHeadPos < g_nRecordOffset
       THEN \* record head not past start of file: Record() returns true
            UNCHANGED <<g_pPcmRecord, bRecording, tape, filePos, g_offEndOfData,
                        g_nLastFrame, g_nOverruns, pRecBuffer>>
       ELSE \E openOk \in BOOLEAN :
            IF ~g_pPcmRecord /\ ~openOk
            THEN \* OpenRecord() fails: CloseRecord() there and again in main()
                 /\ CloseRecord
                 /\ UNCHANGED <<tape, filePos, g_offEndOfData, g_nLastFrame, g_nOverruns,
                                pRecBuffer>>
            ELSE LET extend == g_nHeadPos >= g_nLastFrame
                     extended == IF extend THEN tape \o Silence(g_nPeriodSize) ELSE tape
                     nRead == BytesRead(g_offStartOfData + Len(extended),
                                        RewriteOffset, g_nPeriodSize)
                 IN  /\ extend => g_nLastFrame + PERIOD_SIZE <= MaxFrames
                     /\ g_pPcmRecord' = TRUE
                     /\ bRecording' = IF g_pPcmRecord THEN bRecording
                                      ELSE OpenRecordFlags(bRecording, g_nRecA, g_nRecB)
                     /\ g_offEndOfData' = IF extend THEN g_offEndOfData + g_nPeriodSize
                                          ELSE g_offEndOfData
                     /\ g_nLastFrame' = IF extend THEN g_nLastFrame + PERIOD_SIZE
                                        ELSE g_nLastFrame
                     /\ \E overrun \in BOOLEAN :
                          /\ overrun => g_nOverruns < MaxXruns
                          /\ pRecBuffer' = IF overrun THEN SilentCapture ELSE Capture
                          /\ g_nOverruns' = IF overrun THEN g_nOverruns + 1 ELSE g_nOverruns
                     /\ tape' = RecordedTape(tape, g_nLastFrame, pRecBuffer')
                     /\ filePos' = FileOffsetAfterPositional(filePos, RewriteOffset, nRead)
    /\ UNCHANGED <<g_bLoop, g_nChannels, g_nHeadPos, g_nRecordOffset, g_nTransport,
                   g_bRecordEnabled, g_nRecA, g_nRecB, g_nSelectedTrack, g_pPcmPlay,
                   g_nUnderruns, nKeys>>

----------------------------------------------------------------------------
(* LoadProject()'s OpenFile(), on a file given as header \o tape.          *)

(* What the session holds that OpenFile() leaves alone. *)
sessionVars == <<g_nHeadPos, g_nRecordOffset, g_bRecordEnabled, g_nRecA, g_nRecB,
                 g_nSelectedTrack, bRecording, g_pPcmRecord, g_nUnderruns,
                 g_nOverruns, pRecBuffer, nKeys, g_bLoop, mixVars, cfgFile>>

(* The files OpenFile() is given: a format chunk of 16 + fmtPad bytes for  *)
(* nch channels of bits bits, a LIST chunk of listLen bytes when listLen   *)
(* is not -1, and the data chunk's identifier and size for dataLen bytes.  *)
LIST == <<76, 73, 83, 84>>
FmtPads == {0, 2}
ListLens == {-1, 2, 128}
SampleBits == {8, 16}
StaleBytes == {0, 255}
WaveFileHeader(nch, bits, fmtPad, listLen, dataLen) ==
    LET list == IF listLen = -1 THEN <<>>
                ELSE LIST \o SetLE32(listLen) \o Silence(listLen)
    IN  RIFF \o SetLE32(36 + fmtPad + Len(list) + dataLen) \o WAVE
             \o FMT \o SetLE32(16 + fmtPad)
             \o WaveHeader(1, nch, Samplerate, bits) \o Silence(fmtPad)
             \o list \o DATA \o SetLE32(dataLen)

(* State after main() has initialised the globals and LoadProject() has    *)
(* called CloseFile(), CloseReplay() and CloseRecord(), in front of a file *)
(* that is empty (or absent, which open() with O_CREAT makes empty) or     *)
(* holds a WAVE.                                                           *)
OpenInit ==
    \E empty \in BOOLEAN, nch \in 1 .. (MAX_TRACKS + 1), bits \in SampleBits,
       fmtPad \in FmtPads, listLen \in ListLens, dataLen \in 0 .. MaxOpenData :
        /\ header = IF empty THEN <<>>
                    ELSE WaveFileHeader(nch, bits, fmtPad, listLen, dataLen)
        /\ tape = IF empty THEN <<>> ELSE [j \in 1 .. dataLen |-> TapeByte(j - 1)]
        /\ charSigned \in BOOLEAN
        /\ g_nChannels = 0
        /\ g_fdWave = -1
        /\ filePos = 0
        /\ g_offEndOfData = 0
        /\ g_nLastFrame = 0
        /\ g_nHeadPos = 0
        /\ g_nRecordOffset = LatencyFrames
        /\ g_nTransport = TC_STOP
        /\ g_bRecordEnabled = FALSE
        /\ g_nRecA = -1
        /\ g_nRecB = -1
        /\ g_nSelectedTrack = 0
        /\ bRecording = [t \in 0 .. (MAX_TRACKS - 1) |-> FALSE]
        /\ g_pPcmPlay = FALSE
        /\ g_pPcmRecord = FALSE
        /\ g_nUnderruns = 0
        /\ g_nOverruns = 0
        /\ pRecBuffer = SilentCapture
        /\ pc = "open"
        /\ nKeys = 0
        /\ g_bLoop = FALSE
        /\ copy = NoCopy
        /\ nMonMixA = [t \in 0 .. (MAX_TRACKS - 1) |-> 0]
        /\ nMonMixB = [t \in 0 .. (MAX_TRACKS - 1) |-> 0]
        /\ bMute = [t \in 0 .. (MAX_TRACKS - 1) |-> FALSE]
        /\ g_pReadBuffer = <<>>
        /\ g_pWriteBuffer = <<0, 0>>
        /\ cfgFile = NoConfig

(* A plain char as an int: negative from 128 on where char is signed. *)
CharValue(b) == IF charSigned /\ b >= 128 THEN b - 256 ELSE b

(* OpenFile(): "(uint32_t)*(pBuffer + 4)", the chunk size taken from the   *)
(* first byte of the size field.  A negative char converts to a size of    *)
(* more than 4294967000, past the end of every file: -1 stands for it.     *)
ChunkSize(pBuffer) == IF CharValue(pBuffer[5]) < 0 THEN -1 ELSE CharValue(pBuffer[5])

(* lseek(g_fdWave, n, SEEK_CUR) from offset pos of file f. *)
SeekCur(f, pos, nSize, n) == IF nSize = -1 THEN Len(f) + pos ELSE pos + n

(* A 16-bit little-endian word at bytes i and i + 1 of b. *)
GetLE16(b, i) == b[i] + 256 * b[i + 1]

(* OpenFile(): the loop that looks for chunks, from offset pos, with the   *)
(* channels and the format chunk found so far.                             *)
RECURSIVE FindData(_, _, _, _)
FindData(f, pos, nch, pWaveBuffer) ==
    LET pBuffer == ReadAt(f, pos, 8)
        nSize == ChunkSize(pBuffer)
        none == [found |-> FALSE, closeReplay |-> FALSE, nChannels |-> nch,
                 offStartOfData |-> 0, pWaveBuffer |-> pWaveBuffer]
    IN  IF Len(pBuffer) < 8 THEN none
        ELSE IF SubSeq(pBuffer, 1, 4) = FMT
        THEN LET w == ReadAt(f, pos + 8, 16)
             IN  IF Len(w) < 16 THEN [none EXCEPT !.closeReplay = TRUE]
                 ELSE FindData(f, SeekCur(f, pos + 8 + 16, nSize, nSize - 16),
                               GetLE16(w, 3), w)
        ELSE IF SubSeq(pBuffer, 1, 4) = DATA
        THEN [found |-> TRUE, closeReplay |-> FALSE, nChannels |-> nch,
              offStartOfData |-> pos + 8, pWaveBuffer |-> pWaveBuffer]
        ELSE FindData(f, SeekCur(f, pos + 8, nSize, nSize), nch, pWaveBuffer)

(* The file f as the bytes in front of offset 44 and those from it on. *)
SplitFile(f) ==
    /\ header' = SubSeq(f, 1, HeaderSize)
    /\ tape' = SubSeq(f, HeaderSize + 1, Len(f))

(* OpenFile() up to its return or to the start of the copy of the wave     *)
(* data.  It never closes the file it has opened.                          *)
OpenFile ==
    /\ pc = "open"
    /\ g_fdWave < 0
    /\ g_fdWave' = 3
    /\ LET f == header \o tape
           riff == ReadAt(f, 0, 12)
           r == FindData(f, 12, g_nChannels, <<>>)
       IN  IF \/ Len(riff) < 12
              \/ SubSeq(riff, 1, 4) # RIFF
              \/ SubSeq(riff, 9, 12) # WAVE
           THEN \* too small, not RIFF, not WAVE: CloseReplay(), return false
                /\ pc' = "failed"
                /\ filePos' = Len(riff)
                /\ g_pPcmPlay' = FALSE
                /\ g_nTransport' = CloseReplayTransport(g_nTransport, g_bRecordEnabled)
                /\ UNCHANGED <<g_nChannels, header, tape, copy, g_offEndOfData,
                               g_nLastFrame>>
           ELSE IF ~r.found
           THEN \* no data chunk: return false
                /\ pc' = "failed"
                /\ filePos' = Len(f)
                /\ g_nChannels' = r.nChannels
                /\ g_pPcmPlay' = IF r.closeReplay THEN FALSE ELSE g_pPcmPlay
                /\ g_nTransport' = IF r.closeReplay
                                   THEN CloseReplayTransport(g_nTransport, g_bRecordEnabled)
                                   ELSE g_nTransport
                /\ UNCHANGED <<header, tape, copy, g_offEndOfData, g_nLastFrame>>
           ELSE IF r.offStartOfData = HeaderSize
           THEN \* the data starts at 44: return true
                /\ pc' = "opened"
                /\ g_nChannels' = r.nChannels
                /\ g_offEndOfData' = Len(f)
                /\ filePos' = Len(f)
                /\ g_nLastFrame' = (Len(f) - HeaderSize) \div (r.nChannels * SAMPLESIZE)
                /\ UNCHANGED <<header, tape, copy, g_pPcmPlay, g_nTransport>>
           ELSE \* write the minimal header, then move the wave data
                /\ pc' = "copy"
                /\ g_nChannels' = r.nChannels
                /\ g_offEndOfData' = Len(f)
                /\ filePos' = Len(f)
                /\ SplitFile(PWrite(f, MinimalHeader(r.pWaveBuffer,
                                                     Len(f) - r.offStartOfData), 0))
                /\ \E stale \in StaleBytes :
                     copy' = [offRead |-> r.offStartOfData,
                              offWrite |-> HeaderSize,
                              nWaveSize |-> Len(f) - r.offStartOfData,
                              pData |-> [k \in 1 .. CopyRunSize |-> stale]]
                /\ UNCHANGED <<g_nLastFrame, g_pPcmPlay, g_nTransport>>
    /\ UNCHANGED sessionVars

(* OpenFile(): one turn of the loop that moves the wave data: pread() of a *)
(* run into pData, pwrite() of the whole of pData.                         *)
CopyRun ==
    /\ pc = "copy"
    /\ LET f == header \o tape
           got == ReadAt(f, copy.offRead, CopyRunSize)
           pData == got \o SubSeq(copy.pData, Len(got) + 1, CopyRunSize)
           written == PWrite(f, pData, copy.offWrite)
       IN  /\ Len(got) > 0
           /\ Len(written) <= MaxFileBytes
           /\ SplitFile(written)
           /\ copy' = [copy EXCEPT !.offRead = @ + Len(got),
                                   !.offWrite = @ + Len(got),
                                   !.pData = pData]
    /\ UNCHANGED <<pc, g_fdWave, g_nChannels, filePos, g_offEndOfData, g_nLastFrame,
                   g_pPcmPlay, g_nTransport, sessionVars>>

(* ftruncate(): file f cut or zero-filled to n bytes. *)
Truncate(f, n) == [j \in 1 .. n |-> IF j <= Len(f) THEN f[j] ELSE 0]

(* OpenFile(): pread() finds nothing more to move: ftruncate(), the end of *)
(* data and the last frame, return true.                                   *)
CopyEnd ==
    /\ pc = "copy"
    /\ ReadAt(header \o tape, copy.offRead, CopyRunSize) = <<>>
    /\ pc' = "opened"
    /\ SplitFile(Truncate(header \o tape, HeaderSize + copy.nWaveSize))
    /\ g_offEndOfData' = HeaderSize + copy.nWaveSize
    /\ filePos' = HeaderSize + copy.nWaveSize
    /\ g_nLastFrame' = copy.nWaveSize \div g_nFrameSize
    /\ UNCHANGED <<g_fdWave, g_nChannels, copy, g_pPcmPlay, g_nTransport, sessionVars>>

OpenNext ==
    \/ OpenFile
    \/ CopyRun
    \/ CopyEnd

OpenSpec == OpenInit /\ [][OpenNext]_vars

(* The loop that moves the wave data runs on: main() waits for             *)
(* LoadProject() to return.                                                *)
CopyLoop == CopyRun \/ CopyEnd

OpenFairSpec == OpenSpec /\ WF_vars(CopyLoop)

----------------------------------------------------------------------------
(* The mix of Play(), on one frame of the read buffer.                     *)

(* Conversion of an int to uint16_t and to int16_t. *)
ToUint16(n) == n % 65536
ToInt16(n) == IF n % 65536 >= 32768 THEN (n % 65536) - 65536 ELSE n % 65536

(* Play(): "get little endian sample into 16-bit word", from the plain     *)
(* chars of the read buffer at byte offset nPos of channel nChan.          *)
Sample(buf, nPos, nChan) ==
    ToUint16(CharValue(buf[nPos + (SAMPLESIZE * nChan)])
             + CharValue(buf[nPos + (SAMPLESIZE * nChan) + 1]) * 256)

(* Track::MixA(), Track::MixB() of track t: nValue is an int16_t, >> keeps *)
(* the sign (\div rounds down).                                            *)
MixA(t, nValue) ==
    IF bMute[t] \/ bRecording[t] \/ 16 = nMonMixA[t]
    THEN 0
    ELSE ToInt16(nValue \div (2 ^ nMonMixA[t]))
MixB(t, nValue) ==
    IF bMute[t] \/ bRecording[t] \/ 16 = nMonMixB[t]
    THEN 0
    ELSE ToInt16(nValue \div (2 ^ nMonMixB[t]))

(* Play(): the loop over the channels of the frame at nPos, from channel   *)
(* nChan, adding to the int16_t pair out of the write buffer.              *)
RECURSIVE MixChannels(_, _, _, _)
MixChannels(buf, nPos, nChan, out) ==
    IF nChan >= g_nChannels
    THEN out
    ELSE LET nSample == Sample(buf, nPos, nChan)
         IN  MixChannels(buf, nPos, nChan + 1,
                         <<ToInt16(out[1] + MixA(nChan, ToInt16(nSample))),
                           ToInt16(out[2] + MixB(nChan, ToInt16(nSample)))>>)

(* The frames and monitor settings the mix is given. *)
MixBytes == {0, 127, 128, 255}
MixLevels == {<<0, 0>>, <<1, 16>>, <<16, 1>>, <<15, 8>>}

(* Play() about to mix a frame it has read: any bytes, any monitor levels  *)
(* and mutes, at most one track recording, either kind of char.            *)
MixInit ==
    \E nch \in 1 .. MaxChannels :
        /\ g_nChannels = nch
        /\ g_pReadBuffer \in [0 .. (nch * SAMPLESIZE - 1) -> MixBytes]
        /\ \E levels \in [0 .. (nch - 1) -> MixLevels] :
             /\ nMonMixA = [t \in 0 .. (nch - 1) |-> levels[t][1]]
             /\ nMonMixB = [t \in 0 .. (nch - 1) |-> levels[t][2]]
        /\ bMute \in [0 .. (nch - 1) -> BOOLEAN]
        /\ \E rec \in -1 .. (nch - 1) :
             /\ g_nRecA = rec
             /\ bRecording = [t \in 0 .. (nch - 1) |-> t = rec]
             /\ g_pPcmRecord = (rec # -1)
             /\ g_bRecordEnabled = (rec # -1)
        /\ charSigned \in BOOLEAN
        /\ g_pWriteBuffer = <<0, 0>>
        /\ tape = [j \in 1 .. (nch * SAMPLESIZE) |-> g_pReadBuffer[j - 1]]
        /\ header = MinimalHeader(WaveHeader(1, nch, Samplerate, 16), nch * SAMPLESIZE)
        /\ g_fdWave = 3
        /\ filePos = HeaderSize + nch * SAMPLESIZE
        /\ g_offEndOfData = HeaderSize + nch * SAMPLESIZE
        /\ g_nLastFrame = 1
        /\ g_nHeadPos = 0
        /\ g_nRecordOffset = LatencyFrames
        /\ g_nTransport = TC_PLAY
        /\ g_nRecB = -1
        /\ g_nSelectedTrack = 0
        /\ g_pPcmPlay = TRUE
        /\ g_nUnderruns = 0
        /\ g_nOverruns = 0
        /\ pRecBuffer = SilentCapture
        /\ pc = "mix"
        /\ nKeys = 0
        /\ g_bLoop = TRUE
        /\ copy = NoCopy
        /\ cfgFile = NoConfig

(* Play(): the write buffer is silenced and the frame is mixed into it. *)
MixFrame ==
    /\ pc = "mix"
    /\ pc' = "mixed"
    /\ g_pWriteBuffer' = MixChannels(g_pReadBuffer, 0, 0, <<0, 0>>)
    /\ UNCHANGED <<g_nChannels, tape, filePos, g_offEndOfData, g_nLastFrame, g_nHeadPos,
                   g_nRecordOffset, g_nTransport, g_bRecordEnabled, g_nRecA, g_nRecB,
                   g_nSelectedTrack, bRecording, g_pPcmPlay, g_pPcmRecord, g_nUnderruns,
                   g_nOverruns, pRecBuffer, nKeys, g_bLoop, fileVars, charSigned,
                   nMonMixA, nMonMixB, bMute, g_pReadBuffer>>

MixSpec == MixInit /\ [][MixFrame]_vars

----------------------------------------------------------------------------
Next ==
    \/ NoKey
    \/ KeyDown
    \/ KeyUp
    \/ KeyArmA
    \/ KeyArmB
    \/ KeyStart
    \/ KeyStop
    \/ KeyRecordEnable
    \/ KeySeek
    \/ KeyClearErrors
    \/ KeyRecordOffset
    \/ KeyQuit
    \/ PlayStep
    \/ RecordStep
    \/ MainExit

Spec == Init /\ [][Next]_vars

(* main()'s loop keeps running: the steps of an iteration are always       *)
(* taken, and so is the exit once the loop has ended.                      *)
LoopStep == NoKey \/ PlayStep \/ RecordStep \/ MainExit

FairSpec == Spec /\ WF_vars(LoopStep)

----------------------------------------------------------------------------
(* The session main() runs when OpenFile() could not open() the tape       *)
(* (the project's directory is missing or may not be written): main()      *)
(* ignores what LoadProject() returns and enters its loop with the globals *)
(* as it initialised them and as CloseFile() left them: no descriptor, no  *)
(* channels.                                                               *)
NoTapeInit ==
    /\ g_nChannels = 0
    /\ tape = <<>>
    /\ header = <<>>
    /\ g_fdWave = -1
    /\ filePos = 0
    /\ g_offEndOfData = 0
    /\ g_nLastFrame = 0
    /\ g_nHeadPos = 0
    /\ g_nRecordOffset = LatencyFrames
    /\ g_nTransport = TC_STOP
    /\ g_bRecordEnabled = FALSE
    /\ g_nRecA = -1
    /\ g_nRecB = -1
    /\ g_nSelectedTrack = 0
    /\ bRecording = [t \in 0 .. (MAX_TRACKS - 1) |-> FALSE]
    /\ g_pPcmPlay = FALSE
    /\ g_pPcmRecord = FALSE
    /\ g_nUnderruns = 0
    /\ g_nOverruns = 0
    /\ pRecBuffer = SilentCapture
    /\ pc = "control"
    /\ nKeys = 0
    /\ g_bLoop = TRUE
    /\ copy = NoCopy
    /\ charSigned = TRUE
    /\ nMonMixA = [t \in 0 .. (MAX_TRACKS - 1) |-> 0]
    /\ nMonMixB = [t \in 0 .. (MAX_TRACKS - 1) |-> 0]
    /\ bMute = [t \in 0 .. (MAX_TRACKS - 1) |-> FALSE]
    /\ g_pReadBuffer = <<>>
    /\ g_pWriteBuffer = <<0, 0>>
    /\ cfgFile = NoConfig

(* The keys followed without a tape: those that do not touch the selected  *)
(* track's index (with no channels KEY_DOWN makes it -1).                  *)
NoTapeNext ==
    \/ NoKey
    \/ KeyArmA
    \/ KeyArmB
    \/ KeyStart
    \/ KeyStop
    \/ KeyRecordEnable
    \/ KeyClearErrors
    \/ KeyRecordOffset
    \/ KeyQuit
    \/ PlayStep
    \/ RecordStep
    \/ MainExit

NoTapeSpec == NoTapeInit /\ [][NoTapeNext]_vars

----------------------------------------------------------------------------
(* The project's configuration through a run of the program: LoadProject() *)
(* reads it behind OpenFile(), the monitor keys change what it holds,      *)
(* main() saves it on the way out and the next run loads it again.         *)

(* The values the lines of a given configuration file carry. *)
CfgLevels == {0, 3, 17}
CfgPositions == {0, 1, MaxTapeFrames + 1}

(* State in LoadProject() once OpenFile() has returned true for a tape of  *)
(* nch channels, in front of a configuration file that is absent or holds  *)
(* the lines of every track, "Pos=" and "Rof=".  g_track is as the program *)
(* starts with it: static, so all zero.                                    *)
ProjectInit ==
    \E nch \in 1 .. MaxChannels, lvA \in CfgLevels, lvB \in CfgLevels, m \in BOOLEAN,
       pos \in CfgPositions, absent \in BOOLEAN :
        LET len == MaxTapeFrames * nch * SAMPLESIZE
            mixA == [t \in 0 .. (nch - 1) |-> IF t = 0 THEN lvA ELSE lvB]
            mixB == [t \in 0 .. (nch - 1) |-> IF t = 0 THEN lvB ELSE lvA]
            mute == [t \in 0 .. (nch - 1) |-> IF t = 0 THEN m ELSE ~m]
        IN  /\ cfgFile = IF absent THEN NoConfig
                         ELSE ConfigOf(AllTrackLines(0, nch, mixA, mixB, mute)
                                       \o <<PosLine(pos),
                                            RofLine(LatencyFrames - OffsetStep)>>)
            /\ absent => (lvA = 0 /\ lvB = 0 /\ m /\ pos = 0)
            /\ g_nChannels = nch
            /\ tape = [j \in 1 .. len |-> TapeByte(j - 1)]
            /\ header = MinimalHeader(WaveHeader(1, nch, Samplerate, 16), len)
            /\ g_fdWave = 3
            /\ filePos = HeaderSize + len
            /\ g_offEndOfData = HeaderSize + len
            /\ g_nLastFrame = MaxTapeFrames
            /\ g_nHeadPos = 0
            /\ g_nRecordOffset = LatencyFrames
            /\ g_nTransport = TC_STOP
            /\ g_bRecordEnabled = FALSE
            /\ g_nRecA = -1
            /\ g_nRecB = -1
            /\ g_nSelectedTrack = 0
            /\ bRecording = [t \in 0 .. (MAX_TRACKS - 1) |-> FALSE]
            /\ g_pPcmPlay = FALSE
            /\ g_pPcmRecord = FALSE
            /\ g_nUnderruns = 0
            /\ g_nOverruns = 0
            /\ pRecBuffer = SilentCapture
            /\ pc = "config"
            /\ nKeys = 0
            /\ g_bLoop = FALSE
            /\ copy = NoCopy
            /\ charSigned = TRUE
            /\ nMonMixA = [t \in 0 .. (MAX_TRACKS - 1) |-> 0]
            /\ nMonMixB = [t \in 0 .. (MAX_TRACKS - 1) |-> 0]
            /\ bMute = [t \in 0 .. (MAX_TRACKS - 1) |-> FALSE]
            /\ g_pReadBuffer = <<>>
            /\ g_pWriteBuffer = <<0, 0>>

(* LoadProject(): the settings once the configuration cfg, if there is     *)
(* one, has been read over the settings st.                                *)
ConfigLoaded(cfg, nch, st) ==
    IF cfg.exists THEN LoadLines(st, cfg.lines, 1, nch) ELSE st

(* LoadProject() behind OpenFile(): reads the configuration, SetPlayHead(), *)
(* the record offset from the latencies; then main() starts its loop.      *)
LoadConfig ==
    /\ pc = "config"
    /\ pc' = "control"
    /\ g_bLoop' = TRUE
    /\ LET st == ConfigLoaded(cfgFile, g_nChannels,
                              [mixA |-> nMonMixA, mixB |-> nMonMixB, mute |-> bMute,
                               nHeadPos |-> g_nHeadPos,
                               nRecordOffset |-> g_nRecordOffset])
       IN  /\ nMonMixA' = st.mixA
           /\ nMonMixB' = st.mixB
           /\ bMute' = st.mute
           /\ SetPlayHead(st.nHeadPos)
    /\ g_nRecordOffset' = LatencyFrames
    /\ UNCHANGED <<g_nChannels, tape, g_offEndOfData, g_nLastFrame, g_nTransport,
                   g_bRecordEnabled, g_nRecA, g_nRecB, g_nSelectedTrack, bRecording,
                   g_pPcmPlay, g_pPcmRecord, g_nUnderruns, g_nOverruns, pRecBuffer,
                   nKeys, fileVars, charSigned, g_pReadBuffer, g_pWriteBuffer>>

(* HandleControl(): a key that changes the monitor mix ends the control    *)
(* step like every key.                                                    *)
MixKeyHandled ==
    /\ pc = "control"
    /\ g_bLoop
    /\ nKeys < MaxKeys
    /\ nKeys' = nKeys + 1
    /\ pc' = "play"
    /\ UNCHANGED <<g_bLoop, g_nChannels, tape, filePos, g_offEndOfData, g_nLastFrame,
                   g_nHeadPos, g_nRecordOffset, g_nTransport, g_bRecordEnabled,
                   g_nRecA, g_nRecB, g_nSelectedTrack, bRecording, g_pPcmPlay,
                   g_pPcmRecord, g_nUnderruns, g_nOverruns, pRecBuffer,
                   fileVars, charSigned, g_pReadBuffer, g_pWriteBuffer>>

(* One step up or down of a level, kept within 0 .. 16. *)
LevelDown(n) == IF n > 0 THEN n - 1 ELSE n
LevelUp(n) == IF n < 16 THEN n + 1 ELSE n

(* KEY_RIGHT, KEY_LEFT, KEY_SRIGHT, KEY_SLEFT: a muted track is unmuted,   *)
(* else its two levels move one step.                                      *)
MoveKeys == {"KEY_RIGHT", "KEY_LEFT", "KEY_SRIGHT", "KEY_SLEFT"}
KeyLevel ==
    /\ MixKeyHandled
    /\ \E key \in MoveKeys :
         IF bMute[g_nSelectedTrack]
         THEN /\ bMute' = [bMute EXCEPT ![g_nSelectedTrack] = FALSE]
              /\ UNCHANGED <<nMonMixA, nMonMixB>>
         ELSE /\ nMonMixA' = [nMonMixA EXCEPT ![g_nSelectedTrack] =
                                 IF key \in {"KEY_RIGHT", "KEY_SLEFT"}
                                 THEN LevelDown(@) ELSE LevelUp(@)]
              /\ nMonMixB' = [nMonMixB EXCEPT ![g_nSelectedTrack] =
                                 IF key \in {"KEY_RIGHT", "KEY_SRIGHT"}
                                 THEN LevelDown(@) ELSE LevelUp(@)]
              /\ UNCHANGED bMute

(* 'L', 'R', 'l', 'r', 'C', 'c': the track is unmuted and its levels set. *)
Presets == {<<0, 16>>, <<16, 0>>, <<4, 16>>, <<16, 4>>, <<1, 1>>, <<4, 4>>}
KeyPreset ==
    /\ MixKeyHandled
    /\ \E preset \in Presets :
         /\ nMonMixA' = [nMonMixA EXCEPT ![g_nSelectedTrack] = preset[1]]
         /\ nMonMixB' = [nMonMixB EXCEPT ![g_nSelectedTrack] = preset[2]]
    /\ bMute' = [bMute EXCEPT ![g_nSelectedTrack] = FALSE]

(* 'm': toggle monitor mute. *)
KeyMute ==
    /\ MixKeyHandled
    /\ bMute' = [bMute EXCEPT ![g_nSelectedTrack] = ~@]
    /\ UNCHANGED <<nMonMixA, nMonMixB>>

(* 'M': toggle all monitor mute. *)
KeyMuteAll ==
    /\ MixKeyHandled
    /\ bMute' = [t \in DOMAIN bMute |->
                    IF t < g_nChannels THEN ~bMute[g_nSelectedTrack] ELSE bMute[t]]
    /\ UNCHANGED <<nMonMixA, nMonMixB>>

(* The next run of the program on what this one left on disk: main()       *)
(* initialises the globals (g_track starts all zero), LoadProject() opens  *)
(* the tape, whose data starts at 44, and reads the configuration.         *)
NextRun ==
    /\ pc = "done"
    /\ pc' = "reloaded"
    /\ LET nch == GetLE16(header, 23)
           nLastFrame == Len(tape) \div (nch * SAMPLESIZE)
           st == ConfigLoaded(cfgFile, nch,
                              [mixA |-> [t \in 0 .. (MAX_TRACKS - 1) |-> 0],
                               mixB |-> [t \in 0 .. (MAX_TRACKS - 1) |-> 0],
                               mute |-> [t \in 0 .. (MAX_TRACKS - 1) |-> FALSE],
                               nHeadPos |-> 0,
                               nRecordOffset |-> LatencyFrames])
           nHeadPos == IF st.nHeadPos < 0 THEN 0
                       ELSE IF st.nHeadPos > nLastFrame THEN nLastFrame
                       ELSE st.nHeadPos
       IN  /\ g_nChannels' = nch
           /\ g_fdWave' = 3
           /\ g_offEndOfData' = HeaderSize + Len(tape)
           /\ g_nLastFrame' = nLastFrame
           /\ nMonMixA' = st.mixA
           /\ nMonMixB' = st.mixB
           /\ bMute' = st.mute
           /\ g_nHeadPos' = nHeadPos
           /\ filePos' = HeaderSize + nHeadPos * nch * SAMPLESIZE
    /\ g_nRecordOffset' = LatencyFrames
    /\ g_nTransport' = TC_STOP
    /\ g_bRecordEnabled' = FALSE
    /\ g_nRecA' = -1
    /\ g_nRecB' = -1
    /\ g_nSelectedTrack' = 0
    /\ bRecording' = [t \in 0 .. (MAX_TRACKS - 1) |-> FALSE]
    /\ g_nUnderruns' = 0
    /\ g_nOverruns' = 0
    /\ g_bLoop' = TRUE
    /\ UNCHANGED <<tape, header, copy, cfgFile, g_pPcmPlay, g_pPcmRecord, pRecBuffer,
                   nKeys, charSigned, g_pReadBuffer, g_pWriteBuffer>>

ProjectNext ==
    \/ LoadConfig
    \/ NoKey
    \/ KeyDown
    \/ KeyUp
    \/ KeyLevel
    \/ KeyPreset
    \/ KeyMute
    \/ KeyMuteAll
    \/ KeySeek
    \/ KeyRecordOffset
    \/ KeyQuit
    \/ PlayStep
    \/ RecordStep
    \/ MainExit
    \/ NextRun

ProjectSpec == ProjectInit /\ [][ProjectNext]_vars

----------------------------------------------------------------------------
(* Vocabulary of the claims. *)
H == g_nHeadPos
R == g_nRecordOffset
Armed == g_nRecA # -1 \/ g_nRecB # -1

(* A Record() step that goes through the overdub: the transport rolls,     *)
(* the head is past the record offset and the capture stream is open when  *)
(* the step ends.                                                          *)
OverdubStep ==
    /\ pc = "record"
    /\ pc' = "control"
    /\ RecordRolling
    /\ H >= R
    /\ g_pPcmRecord'

(* Data offset d lies in the period written at H - R, in the column of     *)
(* track t.                                                                *)
InColumn(d, t) ==
    /\ t # -1
    /\ d >= (H - R) * g_nFrameSize
    /\ d < (H - R + PERIOD_SIZE) * g_nFrameSize
    /\ (d % g_nFrameSize) \div SAMPLESIZE = t

(* Index in tape of the first byte of frame i of the written period, in    *)
(* the column of track t.                                                  *)
ColumnIndex(i, t) == (H - R + i) * g_nFrameSize + t * SAMPLESIZE + 1

(* C1: an overdub step changes only the bytes of columns armA and armB of  *)
(* the written period; every other byte is unchanged, and what the step    *)
(* appends is silence.                                                     *)
C1_OnlyArmedColumnsChange ==
    [][OverdubStep =>
        /\ Len(tape') >= Len(tape)
        /\ \A j \in 1 .. Len(tape') :
             \/ InColumn(j - 1, g_nRecA)
             \/ InColumn(j - 1, g_nRecB)
             \/ tape'[j] = (IF j <= Len(tape) THEN tape[j] ELSE 0)]_vars

(* C2: in an overdub step with armB = tB, column tB of every frame of the  *)
(* written period holds the capture's B sample of that frame.              *)
C2_ColumnBHoldsCaptureB ==
    [][(OverdubStep /\ g_nRecB # -1) =>
        \A i \in 0 .. (PERIOD_SIZE - 1) :
            /\ ColumnIndex(i, g_nRecB) + 1 <= Len(tape')
            /\ tape'[ColumnIndex(i, g_nRecB)] = pRecBuffer'[4 * i + 2]
            /\ tape'[ColumnIndex(i, g_nRecB) + 1] = pRecBuffer'[4 * i + 3]]_vars

(* C3: in an overdub step with armA = tA, column tA of every frame of the  *)
(* written period holds the capture's A sample of that frame.              *)
C3_ColumnAHoldsCaptureA ==
    [][(OverdubStep /\ g_nRecA # -1) =>
        \A i \in 0 .. (PERIOD_SIZE - 1) :
            /\ ColumnIndex(i, g_nRecA) + 1 <= Len(tape')
            /\ tape'[ColumnIndex(i, g_nRecA)] = pRecBuffer'[4 * i]
            /\ tape'[ColumnIndex(i, g_nRecA) + 1] = pRecBuffer'[4 * i + 1]]_vars

(* C4: a step taken while the transport plays and record is not enabled    *)
(* leaves every byte of the tape and its length as they were.              *)
C4_PlayLeavesTapeAlone ==
    [][(g_nTransport = TC_PLAY /\ ~g_bRecordEnabled) =>
        (tape' = tape /\ g_offEndOfData' = g_offEndOfData)]_vars

(* C4 witness: a period was played (and underran) and its record step ran  *)
(* past the record offset with a track armed, record not enabled.          *)
C4_Witness ==
    /\ pc = "control"
    /\ g_nTransport = TC_PLAY
    /\ ~g_bRecordEnabled
    /\ Armed
    /\ g_pPcmPlay
    /\ g_nUnderruns > 0
    /\ H >= R

(* C5: the head stays within the tape: 0 <= H <= lastFrame. *)
C5_HeadWithinTape == 0 <= H /\ H <= g_nLastFrame

(* C6: no track is held by both arms. *)
C6_ArmsDistinct == (g_nRecA = g_nRecB) => (g_nRecA = -1)

(* C7: at a period boundary with the transport playing and record enabled, *)
(* the armed tracks have bRecording set.                                   *)
C7_ArmedTracksRecording ==
    (pc = "control" /\ g_nTransport = TC_PLAY /\ g_bRecordEnabled) =>
        /\ g_nRecA # -1 => bRecording[g_nRecA]
        /\ g_nRecB # -1 => bRecording[g_nRecB]

C9_RecordKeepsPlaying ==
    [][(pc = "play" /\ g_nTransport = TC_PLAY /\ g_bRecordEnabled /\ Armed /\ g_pPcmPlay) =>
        (g_pPcmPlay' /\ H' = H + PERIOD_SIZE)]_vars

(* C10: with record not enabled, the Play() step whose read returns 0      *)
(* bytes closes the playback stream and stops the transport; and from any  *)
(* state playing without record enabled the transport reaches TC_STOP      *)
(* unless another key is handled.                                          *)
C10_EndOfTapeStops ==
    /\ [][(/\ pc = "play"
           /\ g_nTransport = TC_PLAY
           /\ ~g_bRecordEnabled
           /\ g_pPcmPlay
           /\ ReadCount(filePos, g_nPeriodSize) = 0) =>
          (g_nTransport' = TC_STOP /\ ~g_pPcmPlay')]_vars
    /\ \A n \in 0 .. MaxKeys :
         (g_nTransport = TC_PLAY /\ ~g_bRecordEnabled /\ nKeys = n)
            ~> (g_nTransport = TC_STOP \/ nKeys # n)

(* C10 witness: the only key handled was the start, periods were played    *)
(* (one underran) and the transport is back in TC_STOP at end of tape.     *)
C10_Witness ==
    /\ nKeys = 1
    /\ g_nUnderruns > 0
    /\ g_nTransport = TC_STOP
    /\ ~g_pPcmPlay
    /\ filePos = FileLength

(* C11: while the tape is open g_offEndOfData is the length of the file;   *)
(* a step changes the length of the file or g_offEndOfData only when it is *)
(* a Record() step with the head at or past the last frame, and then both  *)
(* grow by one period: the overdub's read-modify-write leaves the length.  *)
C11_EndOfDataIsFileLength ==
    /\ [](g_fdWave > 0 => g_offEndOfData = FileLength)
    /\ [][(g_offEndOfData' # g_offEndOfData \/ Len(tape') # Len(tape)) =>
            /\ OverdubStep
            /\ H >= g_nLastFrame
            /\ g_offEndOfData' = g_offEndOfData + g_nPeriodSize
            /\ Len(tape') = Len(tape) + g_nPeriodSize]_vars

(* C11 witness: the tape is open, an overdub has written captured bytes    *)
(* into it and an extension has appended silence behind them.              *)
C11_Witness ==
    /\ g_fdWave > 0
    /\ pc = "control"
    /\ Len(tape) > 0
    /\ tape[Len(tape)] = 0
    /\ \E j \in 1 .. Len(tape) : tape[j] >= 128

(* Data offset d lies in the period the overdub of this step rewrites. *)
InRewrittenPeriod(d) ==
    /\ d >= (H - R) * g_nFrameSize
    /\ d < (H - R + PERIOD_SIZE) * g_nFrameSize

File == header \o tape
DeclaredChannels == GetLE16(header, 23)
DeclaredBits == GetLE16(header, 35)

(* C13: once OpenFile() has returned true the data starts at offset 44     *)
(* behind the data chunk's identifier and size, g_offEndOfData is the      *)
(* length of the file and g_nLastFrame * g_nFrameSize + 44 =               *)
(* g_offEndOfData.                                                         *)
C13_OpenedTapeGeometry ==
    (pc = "opened") =>
        /\ g_offStartOfData = 44
        /\ Len(header) = 44
        /\ SubSeq(header, 37, 40) = DATA
        /\ g_offEndOfData = Len(File)
        /\ g_nLastFrame * g_nFrameSize + 44 = g_offEndOfData

(* C15: OpenFile() on a file whose data starts elsewhere than at 44        *)
(* returns (once the loop has read up to the end the file had, its next    *)
(* turn ends it), and then the file is 44 bytes plus the original data     *)
(* long, its bytes from 44 on are the original data and its header is the  *)
(* minimal one around the original format fields; OpenFile() on a file     *)
(* whose data starts at 44 changes no byte.                                *)
C15_NormalizeKeepsData ==
    /\ []((pc = "opened" /\ copy # NoCopy) =>
            /\ Len(File) = 44 + copy.nWaveSize
            /\ tape = [j \in 1 .. copy.nWaveSize |-> TapeByte(j - 1)]
            /\ header = MinimalHeader(WaveHeader(1, DeclaredChannels, Samplerate,
                                                 DeclaredBits), copy.nWaveSize))
    /\ [][(pc = "open" /\ pc' = "opened") => (header' = header /\ tape' = tape)]_vars
    /\ [][(pc = "copy" /\ copy.offRead >= g_offEndOfData) => (pc' = "opened")]_vars
    /\ (pc = "copy") ~> (pc = "opened")

(* C16: OpenFile() on an empty (or absent) file returns true and leaves a  *)
(* file of exactly 44 bytes, a minimal header with RIFF size 36 and data   *)
(* size 0, with g_nLastFrame = 0.                                          *)
C16_EmptyFileCreatesTape ==
    [][(pc = "open" /\ File = <<>>) =>
        /\ pc' = "opened"
        /\ Len(header') = 44
        /\ tape' = <<>>
        /\ SubSeq(header', 1, 4) = RIFF
        /\ SubSeq(header', 5, 8) = SetLE32(36)
        /\ SubSeq(header', 41, 44) = SetLE32(0)
        /\ g_nLastFrame' = 0]_vars

(* C17: a file whose format chunk declares more than MAX_TRACKS channels   *)
(* or other than 16 bits per sample is never opened: OpenFile() returns    *)
(* false with the descriptor released.                                     *)
C17_UnsupportedFormatRefused ==
    (Len(header) >= 36 /\ (DeclaredChannels > MAX_TRACKS \/ DeclaredBits # 16)) =>
        /\ pc \in {"open", "failed"}
        /\ pc = "failed" => g_fdWave < 0

(* The 32-bit little-endian value at bytes i .. i + 3 of b. *)
GetLE32(b, i) == b[i] + 256 * b[i + 1] + 65536 * b[i + 2] + 16777216 * b[i + 3]

(* C14: once main() has closed the tape, bytes [4,8) of the file hold      *)
(* g_offEndOfData - 8 as a little-endian 32-bit value, the descriptor is   *)
(* released and the transport is in TC_STOP.                               *)
C14_CloseWritesRiffSize ==
    (pc = "done") =>
        /\ Len(header) = 44
        /\ GetLE32(header, 5) = g_offEndOfData - 8
        /\ g_offEndOfData = Len(File)
        /\ g_fdWave = -1
        /\ g_nTransport = TC_STOP

(* C14 witness: the tape was closed after a session that played, overdubbed *)
(* captured bytes and extended the tape.                                   *)
C14_Witness ==
    /\ pc = "done"
    /\ g_fdWave = -1
    /\ Len(tape) > 0
    /\ tape[Len(tape)] = 0
    /\ \E j \in 1 .. Len(tape) : tape[j] >= 128
    /\ g_nHeadPos > 0

(* The signed 16-bit little-endian value of track t's two bytes in the     *)
(* frame, and a value clamped to the range of a 16-bit sample.             *)
TapeSample(t) ==
    LET u == g_pReadBuffer[SAMPLESIZE * t] + 256 * g_pReadBuffer[SAMPLESIZE * t + 1]
    IN  IF u >= 32768 THEN u - 65536 ELSE u
Clamp16(n) == IF n > 32767 THEN 32767 ELSE IF n < -32768 THEN -32768 ELSE n

(* The exact sum of the contributions of tracks 0 .. t - 1 to each bus. *)
RECURSIVE SumA(_)
SumA(t) ==
    IF t = 0 THEN 0
    ELSE SumA(t - 1) + MixA(t - 1, ToInt16(Sample(g_pReadBuffer, 0, t - 1)))
RECURSIVE SumB(_)
SumB(t) ==
    IF t = 0 THEN 0
    ELSE SumB(t - 1) + MixB(t - 1, ToInt16(Sample(g_pReadBuffer, 0, t - 1)))

(* C18: each stereo output sample is the exact sum of the tracks'          *)
(* contributions to its bus, clamped to [-32768, 32767]: it never wraps.   *)
C18_MixSaturates ==
    (pc = "mixed") =>
        /\ g_pWriteBuffer[1] = Clamp16(SumA(g_nChannels))
        /\ g_pWriteBuffer[2] = Clamp16(SumB(g_nChannels))

(* C19: a track's contribution to bus A (B) is its tape sample shifted     *)
(* right arithmetically by nMonMixA (nMonMixB) when that is below 16 and   *)
(* the track is neither muted nor recording, and 0 otherwise; with every   *)
(* track muted the output is all zeros.                                    *)
C19_ContributionIsShiftedSample ==
    (pc = "mixed") =>
        /\ \A t \in Tracks :
             /\ MixA(t, ToInt16(Sample(g_pReadBuffer, 0, t))) =
                   (IF nMonMixA[t] < 16 /\ ~bMute[t] /\ ~bRecording[t]
                    THEN TapeSample(t) \div (2 ^ nMonMixA[t]) ELSE 0)
             /\ MixB(t, ToInt16(Sample(g_pReadBuffer, 0, t))) =
                   (IF nMonMixB[t] < 16 /\ ~bMute[t] /\ ~bRecording[t]
                    THEN TapeSample(t) \div (2 ^ nMonMixB[t]) ELSE 0)
        /\ (\A t \in Tracks : bMute[t]) => g_pWriteBuffer = <<0, 0>>

C21_StartNeedsDeviceAndTape ==
    /\ [][(pc = "control" /\ g_nTransport = TC_STOP /\ (~g_pPcmPlay' \/ g_fdWave < 0))
            => g_nTransport' = TC_STOP]_vars
    /\ [](g_fdWave < 0 => g_nTransport = TC_STOP)

(* C22: ' ' in TC_PLAY returns with the transport in TC_STOP, the playback *)
(* and capture streams closed, bRecording false on every track and         *)
(* g_nLastFrame = (g_offEndOfData - g_offStartOfData) / g_nFrameSize.      *)
C22_StopClosesEverything ==
    [][KeyStop =>
        /\ pc' = "play"
        /\ g_nTransport' = TC_STOP
        /\ ~g_pPcmPlay'
        /\ ~g_pPcmRecord'
        /\ \A t \in DOMAIN bRecording' : ~bRecording'[t]
        /\ g_nFrameSize # 0
        /\ g_nLastFrame' = (g_offEndOfData' - g_offStartOfData) \div g_nFrameSize]_vars

(* C23: a Record() step, whether it returns early, appends silence or      *)
(* rewrites a period, leaves the file offset Play() reads at and the head  *)
(* as they were: the next read of Play() starts at the byte where its last *)
(* read ended.                                                             *)
C23_RecordKeepsReadPosition ==
    [][(pc = "record") => (filePos' = filePos /\ H' = H)]_vars

(* C23 witness: the record step of a period that was played from inside    *)
(* the tape has appended silence and written captured bytes, the capture   *)
(* stream is open and the file offset is behind the period played.         *)
C23_Witness ==
    /\ pc = "control"
    /\ g_pPcmRecord
    /\ g_nTransport = TC_PLAY
    /\ H >= R
    /\ filePos >= g_offStartOfData + g_nPeriodSize
    /\ filePos < FileLength
    /\ tape[Len(tape)] = 0
    /\ \E j \in 1 .. Len(tape) : tape[j] >= 128

(* C24: every track's nMonMixA and nMonMixB lie in 0 .. 16, after any      *)
(* sequence of level, pan, preset and mute keys and after LoadProject()    *)
(* has read a configuration, whatever values its lines carry.              *)
C24_LevelsWithinRange ==
    \A t \in DOMAIN nMonMixA :
        /\ nMonMixA[t] \in 0 .. 16
        /\ nMonMixB[t] \in 0 .. 16

(* Line k of the saved configuration starts with the characters prefix. *)
SavedLineStarts(k, prefix) ==
    /\ k <= Len(cfgFile.lines)
    /\ Len(cfgFile.lines[k]) > Len(prefix)
    /\ SubSeq(cfgFile.lines[k], 1, Len(prefix)) = prefix

(* C25: the configuration SaveProject() leaves holds the L, R and M lines  *)
(* of every track in index order, then "Pos=" and "Rof=", and the next run *)
(* that loads it has the monitor levels, mutes, head position and record   *)
(* offset that were in effect when it was saved.                           *)
C25_SaveLoadRoundTrip ==
    /\ [](pc = "done" =>
            /\ cfgFile.exists
            /\ Len(cfgFile.lines) = 3 * DeclaredChannels + 2
            /\ \A i \in 0 .. (DeclaredChannels - 1) :
                 /\ SavedLineStarts(3 * i + 1, FormatInt02(i) \o <<CharL, CharEquals>>)
                 /\ SavedLineStarts(3 * i + 2, FormatInt02(i) \o <<CharR, CharEquals>>)
                 /\ SavedLineStarts(3 * i + 3, FormatInt02(i) \o <<CharM, CharEquals>>)
            /\ SavedLineStarts(3 * DeclaredChannels + 1, POS)
            /\ SavedLineStarts(3 * DeclaredChannels + 2, ROF))
    /\ [][(pc = "done" /\ pc' = "reloaded") =>
            /\ \A t \in 0 .. (g_nChannels' - 1) :
                 /\ nMonMixA'[t] = nMonMixA[t]
                 /\ nMonMixB'[t] = nMonMixB[t]
                 /\ bMute'[t] = bMute[t]
            /\ H' = H
            /\ R' = R]_vars

(* C26: LoadProject() for a project without a configuration file leaves    *)
(* every track with nMonMixA = nMonMixB = 0 and muted, the head at 0 and   *)
(* the record offset computed from the two latencies.                      *)
C26_DefaultsWithoutConfig ==
    [][(pc = "config" /\ ~cfgFile.exists) =>
        /\ \A t \in 0 .. (g_nChannels' - 1) :
             /\ nMonMixA'[t] = 0
             /\ nMonMixB'[t] = 0
             /\ bMute'[t] = TRUE
        /\ H' = 0
        /\ R' = LatencyFrames]_vars

(* C27: a Record() step with H < R takes no capture and leaves the file as *)
(* it was; a Record() step with H >= R changes no byte outside the period  *)
(* at g_offStartOfData + (H - R) * g_nFrameSize, H being the head as the   *)
(* Play() of the same iteration left it; and where the head stands still   *)
(* (the playback stream is closed), the Record() step of the next          *)
(* iteration, at the same H with the same captured period, leaves the      *)
(* bytes of the file as this one left them.                                *)
C27_RecordPlacement ==
    /\ [][(pc = "record" /\ RecordRolling /\ H < R) =>
            /\ tape' = tape
            /\ g_offEndOfData' = g_offEndOfData
            /\ pRecBuffer' = pRecBuffer
            /\ g_nOverruns' = g_nOverruns]_vars
    /\ [][OverdubStep =>
            \A j \in 1 .. Len(tape') :
                \/ InRewrittenPeriod(j - 1)
                \/ tape'[j] = (IF j <= Len(tape) THEN tape[j] ELSE 0)]_vars
    /\ [][(OverdubStep /\ ~g_pPcmPlay) =>
            RecordedTape(tape', g_nLastFrame', pRecBuffer') = tape']_vars

(* C28: OpenFile()'s scan passes every chunk that is neither "fmt " nor     *)
(* "data" by its declared size and the rest of the format chunk by its     *)
(* declared size less 16, so for every file that holds a data chunk it     *)
(* finds the data where it is, whatever the sizes of the chunks before it. *)
C28_ChunkScanFindsData ==
    [][(pc = "open" /\ File # <<>>) =>
        \/ pc' = "opened" /\ Len(header) = HeaderSize
        \/ pc' = "copy" /\ copy'.offRead = Len(header)]_vars

(* C29: at every period boundary with the tape open and the transport in   *)
(* TC_PLAY, the file offset Play() reads at is g_offStartOfData +           *)
(* H * g_nFrameSize.                                                       *)
C29_ReadPositionFollowsHead ==
    (pc = "control" /\ g_fdWave > 0 /\ g_nTransport = TC_PLAY) =>
        filePos = g_offStartOfData + H * g_nFrameSize

(* C30: at every period boundary the capture stream is open only if the    *)
(* transport is in TC_PLAY, record is enabled and a track is armed; and    *)
(* whenever the transport is in TC_STOP the playback and the capture       *)
(* stream are both closed.                                                 *)
C30_StreamsFollowTransport ==
    /\ (pc = "control" /\ g_pPcmRecord) =>
            (g_nTransport = TC_PLAY /\ g_bRecordEnabled /\ Armed)
    /\ (g_nTransport = TC_STOP) => (~g_pPcmPlay /\ ~g_pPcmRecord)

(* C30 witness: a period boundary in TC_STOP with both streams closed,     *)
(* after a take in which the capture stream was open and put captured      *)
(* bytes on the tape, record still enabled and a track still armed.        *)
C30_Witness ==
    /\ pc = "control"
    /\ g_nTransport = TC_STOP
    /\ ~g_pPcmPlay
    /\ ~g_pPcmRecord
    /\ Armed
    /\ nKeys >= 4
    /\ \E j \in 1 .. Len(tape) : tape[j] >= 128

(* C31: once main() has closed a tape that Record() extended, bytes        *)
(* [40,44) of the file, the data chunk's size, hold g_offEndOfData - 44:   *)
(* the header describes the whole data region of the closed file.  A tape  *)
(* that was not extended keeps the size OpenFile() found or wrote.         *)
C31_CloseDescribesData ==
    (pc = "done" /\ Len(header) = HeaderSize) =>
        GetLE32(header, 41) = g_offEndOfData - HeaderSize

====
